---- MODULE Spec2Model ----
(***************************************************************************)
(* BaseProvider (src/src/index.ts): the connection state of a provider,    *)
(* the popup handshake (connectPopup), the silent handshake                *)
(* (connectSilent), disconnect, callInterface and getProviderMetadata.     *)
(*                                                                         *)
(* Every call the bridge makes is one record of `calls`.  An action is one *)
(* turn of the event loop: the arrival of an event (a storage event, a     *)
(* timer, the completion of a collaborator's promise) together with every  *)
(* continuation and promise reaction the code runs because of it.          *)
(***************************************************************************)
EXTENDS Integers, Sequences, FiniteSets, TLC

\* ------------------------------------------------------------------ bounds
\* The number of calls the bridge makes in one run.
MaxCalls == 3

\* ------------------------------------------------------------------ values
\* A string is a sequence of one-character strings.  A JavaScript value is
\* written as its canonical JSON text (JSON text without white space).
NullLit == <<"n", "u", "l", "l">>
TrueLit == <<"t", "r", "u", "e">>
FalseLit == <<"f", "a", "l", "s", "e">>
EmptyString == <<"\"", "\"">>
Zero == <<"0">>
NoValue == <<>>

WS == {" "}
Digits == {"0", "1", "2", "3", "4", "5", "6", "7", "8", "9"}

\* ToBoolean, as `!x` applies it: null, false, 0 and "" are falsy.
Falsy(v) == v \in {NullLit, FalseLit, Zero, EmptyString}

\* ------------------------------------------------------------ JSON.parse
ParseFail == [ok |-> FALSE, val |-> NoValue, next |-> 0]
ParseOk(v, n) == [ok |-> TRUE, val |-> v, next |-> n]

RECURSIVE SkipWS(_, _)
SkipWS(s, i) == IF i <= Len(s) /\ s[i] \in WS THEN SkipWS(s, i + 1) ELSE i

HasLit(s, i, lit) ==
  /\ i + Len(lit) - 1 <= Len(s)
  /\ SubSeq(s, i, i + Len(lit) - 1) = lit

\* The index after the run of digits that starts at i.
RECURSIVE ScanDigits(_, _)
ScanDigits(s, i) == IF i <= Len(s) /\ s[i] \in Digits THEN ScanDigits(s, i + 1) ELSE i

\* The index of the quote that closes the string whose first character is at
\* i, or 0 when the string is not closed.
RECURSIVE ScanString(_, _)
ScanString(s, i) ==
  IF i > Len(s) THEN 0
  ELSE IF s[i] = "\"" THEN i
  ELSE ScanString(s, i + 1)

ParseNumber(s, i) ==
  IF s[i] = "0" THEN ParseOk(Zero, i + 1)
  ELSE LET j == ScanDigits(s, i) IN ParseOk(SubSeq(s, i, j - 1), j)

ParseString(s, i) ==
  LET j == ScanString(s, i + 1)
  IN IF j = 0 THEN ParseFail ELSE ParseOk(SubSeq(s, i, j), j + 1)

RECURSIVE ParseValue(_, _)
RECURSIVE ParseElements(_, _, _)
RECURSIVE ParseMembers(_, _, _)

ParseValue(s, i0) ==
  LET i == SkipWS(s, i0)
  IN IF i > Len(s) THEN ParseFail
     ELSE IF HasLit(s, i, NullLit) THEN ParseOk(NullLit, i + Len(NullLit))
     ELSE IF HasLit(s, i, TrueLit) THEN ParseOk(TrueLit, i + Len(TrueLit))
     ELSE IF HasLit(s, i, FalseLit) THEN ParseOk(FalseLit, i + Len(FalseLit))
     ELSE IF s[i] \in Digits THEN ParseNumber(s, i)
     ELSE IF s[i] = "\"" THEN ParseString(s, i)
     ELSE IF s[i] = "["
       THEN LET j == SkipWS(s, i + 1)
            IN IF j <= Len(s) /\ s[j] = "]" THEN ParseOk(<<"[", "]">>, j + 1)
               ELSE ParseElements(s, j, <<"[">>)
     ELSE IF s[i] = "{"
       THEN LET j == SkipWS(s, i + 1)
            IN IF j <= Len(s) /\ s[j] = "}" THEN ParseOk(<<"{", "}">>, j + 1)
               ELSE ParseMembers(s, j, <<"{">>)
     ELSE ParseFail

ParseElements(s, i, acc) ==
  LET v == ParseValue(s, i)
  IN IF ~v.ok THEN ParseFail
     ELSE LET j == SkipWS(s, v.next)
          IN IF j > Len(s) THEN ParseFail
             ELSE IF s[j] = "," THEN ParseElements(s, j + 1, acc \o v.val \o <<",">>)
             ELSE IF s[j] = "]" THEN ParseOk(acc \o v.val \o <<"]">>, j + 1)
             ELSE ParseFail

ParseMembers(s, i, acc) ==
  LET k == SkipWS(s, i)
  IN IF k > Len(s) \/ s[k] # "\"" THEN ParseFail
     ELSE LET key == ParseString(s, k)
          IN IF ~key.ok THEN ParseFail
             ELSE LET c == SkipWS(s, key.next)
                  IN IF c > Len(s) \/ s[c] # ":" THEN ParseFail
                     ELSE LET v == ParseValue(s, c + 1)
                          IN IF ~v.ok THEN ParseFail
                             ELSE LET j == SkipWS(s, v.next)
                                      got == acc \o key.val \o <<":">> \o v.val
                                  IN IF j > Len(s) THEN ParseFail
                                     ELSE IF s[j] = "," THEN ParseMembers(s, j + 1, got \o <<",">>)
                                     ELSE IF s[j] = "}" THEN ParseOk(got \o <<"}">>, j + 1)
                                     ELSE ParseFail

\* JSON.parse(text): the value, or a SyntaxError when the text is not one
\* JSON value followed by nothing but white space.
JSONParse(s) ==
  LET v == ParseValue(s, 1)
  IN IF v.ok /\ SkipWS(s, v.next) = Len(s) + 1
       THEN [ok |-> TRUE, val |-> v.val]
       ELSE [ok |-> FALSE, val |-> NoValue]

\* ------------------------------------------------------------------ inputs
\* What the connector writes on `connector-connection-info`.
PayloadObject == <<"{", " ", "\"", "a", "\"", ":", "1", "}">>
PayloadNotJson == <<"{", "n", "o", "t", " ", "j", "s", "o", "n">>
RawPayloads == {PayloadObject, PayloadNotJson}

\* Connection info a concrete provider may have persisted earlier.
SavedInfo == <<"{", "\"", "a", "\"", ":", "1", "}">>

\* The skapp the bridge speaks for.
Skapps == {"skappA"}

\* What fetchSkappPermissions may return: boolean | null.
PermissionResults == {TrueLit, FalseLit, NullLit}

\* Names the bridge may pass to callInterface: the name the provider
\* registers, a name nobody registers, and a name every object inherits from
\* Object.prototype.
OwnMethodNames == {"doThing"}
PrototypeFunctions == {"toString"}
MethodNames == OwnMethodNames \cup {"missing"} \cup PrototypeFunctions

HandlerValues == {<<"7">>}
ObjectToString ==
  <<"\"", "[", "o", "b", "j", "e", "c", "t", " ", "O", "b", "j", "e", "c", "t", "]", "\"">>
MetadataValues == {<<"{", "\"", "n", "a", "m", "e", "\"", ":", "\"", "p", "\"", "}">>}

\* ------------------------------------------------------------------ errors
ErrNotConnected == "Provider not connected, cannot access interface"
ErrUnimplemented == "Unimplemented interface method"
ErrTimeout == "Connector timed out"
ErrNoSaved == "Saved connection info not found"
ErrNotPermissioned == "Skapp not permissioned"
ErrSyntax == "SyntaxError"
\* What the waiter on `connector` rejects with: the window was closed, or
\* the connector reported an error.
LongErrors == {"closed", "error"}
\* What the waiter on `connector-connection-info` rejects with.
InfoErrors == {"info error"}
ErrSave == "saveConnectionInfo failed"
ErrFetch == "fetchConnectionInfo failed"
ErrPermissions == "fetchSkappPermissions failed"
ErrClear == "clearConnectionInfo failed"
ErrHandler == "handler failed"

\* ------------------------------------------------------------------- state
VARIABLES
  isProviderConnected,  \* BaseProvider.isProviderConnected
  methods,              \* the own property names of BaseProvider.methods
  metadata,             \* BaseProvider.metadata
  stored,               \* what the concrete provider has persisted (null: nothing)
  calls                 \* one record for every call made through the bridge

vars == <<isProviderConnected, methods, metadata, stored, calls>>

\* A call as it starts: nothing awaited, nothing settled.
\*   pc        where the body of the call stands
\*   status    the promise the call returned to the bridge
\*   info, long, ping    the three waiters of connectPopup
\*   cInfo, cLong, cPing how often each waiter's cleanup() has run
\*   save, fetch, perm, clear  the call's use of each collaborator
\*   saveCalls how often the call has called saveConnectionInfo
\*   longErr   what the waiter on `connector` rejected with
\*   emits     the `error` events emitted to the connector: the detail of
\*             each, and the state of the call's promise when it was emitted
NewCall(op, arg) ==
  [op |-> op, arg |-> arg, pc |-> "start", status |-> "pending",
   err |-> "", value |-> NoValue, pre |-> isProviderConnected,
   info |-> "none", long |-> "none", ping |-> "none",
   cInfo |-> 0, cLong |-> 0, cPing |-> 0,
   payload |-> NoValue, save |-> "none", saveArg |-> NoValue, saveCalls |-> 0,
   longErr |-> "", emits |-> <<>>,
   fetch |-> "none", fetched |-> NoValue,
   perm |-> "none", permInfo |-> NoValue, permSkapp |-> "", permVal |-> NoValue,
   clear |-> "none", handlerCalls |-> 0]

CallIds == 1..Len(calls)
Handshakes == {"connectPopup", "connectSilent"}

\* The embedding context has at most one handshake request in flight.
NoHandshakeInFlight ==
  \A c \in CallIds : calls[c].op \in Handshakes => calls[c].status # "pending"

Init ==
  /\ isProviderConnected = FALSE
  /\ methods = OwnMethodNames
  /\ metadata \in MetadataValues
  /\ stored \in {NullLit, SavedInfo}
  /\ calls = <<>>

\* An async function body that returns v / throws e.
Returned(r, v) == [r EXCEPT !.status = "resolved", !.value = v, !.pc = "done"]
Thrown(r, e) == [r EXCEPT !.status = "rejected", !.err = e, !.pc = "done"]

\* ------------------------------------------------------------ callInterface
\* this.methods[method]: an own property, or one found on Object.prototype.
Lookup(m) ==
  IF m \in methods THEN "handler"
  ELSE IF m \in PrototypeFunctions THEN "inherited function"
  ELSE "undefined"

\* The body of callInterface up to the handler's own completion.
CallInterfaceBody(r, m) ==
  IF ~isProviderConnected THEN Thrown(r, ErrNotConnected)
  ELSE IF Lookup(m) = "undefined" THEN Thrown(r, ErrUnimplemented)
  ELSE IF Lookup(m) = "inherited function" THEN Returned(r, ObjectToString)
  ELSE [r EXCEPT !.pc = "awaitHandler", !.handlerCalls = @ + 1]

CallInterface(m) ==
  /\ Len(calls) < MaxCalls
  /\ calls' = Append(calls, CallInterfaceBody(NewCall("callInterface", m), m))
  /\ UNCHANGED <<isProviderConnected, methods, metadata, stored>>

HandlerReturn(c, v) ==
  /\ calls[c].op = "callInterface" /\ calls[c].pc = "awaitHandler"
  /\ calls' = [calls EXCEPT ![c] = Returned(@, v)]
  /\ UNCHANGED <<isProviderConnected, methods, metadata, stored>>

HandlerFail(c) ==
  /\ calls[c].op = "callInterface" /\ calls[c].pc = "awaitHandler"
  /\ calls' = [calls EXCEPT ![c] = Thrown(@, ErrHandler)]
  /\ UNCHANGED <<isProviderConnected, methods, metadata, stored>>

\* ------------------------------------------------------------- connectPopup
CancelWaiter(w) == IF w = "pending" THEN "canceled" ELSE w

\* A finally handler that forgets controllerPing.cleanup().
CleanupWithoutPing(r) ==
  [r EXCEPT !.info = CancelWaiter(@), !.cInfo = @ + 1,
            !.long = CancelWaiter(@), !.cLong = @ + 1]

\* The finally handler: the cleanup() of each of the three controllers.
Cleanup(r) ==
  [r EXCEPT !.info = CancelWaiter(@), !.cInfo = @ + 1,
            !.long = CancelWaiter(@), !.cLong = @ + 1,
            !.ping = CancelWaiter(@), !.cPing = @ + 1]

\* reject(e) of the promise of connectPopup, and the reactions to it:
\* .catch rethrows, .finally cleans up, the call is rejected.  A promise that
\* is settled already ignores it.
Reject(r, e) ==
  IF r.status # "pending" THEN r
  ELSE Cleanup([r EXCEPT !.status = "rejected", !.err = e])

\* resolve() of the promise of connectPopup, and the reactions to it.
Resolve(r) ==
  IF r.status # "pending" THEN r
  ELSE Cleanup([r EXCEPT !.status = "resolved"])

\* The start of connectPopup: the three waiters are registered, the executor
\* attaches its handlers and awaits the connection info.
ConnectPopupBody(r) ==
  [r EXCEPT !.info = "pending", !.long = "pending", !.ping = "pending",
            !.pc = "awaitInfo"]

ConnectPopup(skapp) ==
  /\ Len(calls) < MaxCalls
  /\ NoHandshakeInFlight
  /\ calls' = Append(calls, ConnectPopupBody(NewCall("connectPopup", skapp)))
  /\ UNCHANGED <<isProviderConnected, methods, metadata, stored>>

\* emitStorageEvent("provider", "error", e).
Emit(r, e) == [r EXCEPT !.emits = Append(@, [detail |-> e, promise |-> r.status])]

\* The executor calls saveConnectionInfo(v) and awaits it.
CallSave(r, v) ==
  [r EXCEPT !.pc = "awaitSave", !.save = "pending", !.saveArg = v,
            !.saveCalls = @ + 1]

\* An executor that saves the text it received instead of the parsed value.
ReceiveInfoUnparsed(r, raw) ==
  LET p == JSONParse(raw)
      got == [r EXCEPT !.info = "resolved", !.payload = raw]
  IN IF p.ok
       THEN CallSave(got, raw)
       ELSE Reject([Emit(got, ErrSyntax) EXCEPT !.pc = "done"], ErrSyntax)

\* An executor that rejects an unparsable payload without telling the connector.
ReceiveInfoNoNotice(r, raw) ==
  LET p == JSONParse(raw)
      got == [r EXCEPT !.info = "resolved", !.payload = raw]
  IN IF p.ok
       THEN CallSave(got, p.val)
       ELSE Reject([got EXCEPT !.pc = "done"], ErrSyntax)

\* An executor whose catch block lacks the `return` after reject(err): it
\* goes on to save the connectionInfo that was never assigned.
ReceiveInfoNoReturn(r, raw) ==
  LET p == JSONParse(raw)
      got == [r EXCEPT !.info = "resolved", !.payload = raw]
  IN IF p.ok
       THEN CallSave(got, p.val)
       ELSE CallSave(Reject(Emit(got, ErrSyntax), ErrSyntax), NoValue)

\* The executor after `await promiseConnectionInfo` delivered raw.
ReceiveInfo(r, raw) ==
  LET p == JSONParse(raw)
      got == [r EXCEPT !.info = "resolved", !.payload = raw]
  IN IF p.ok
       THEN CallSave(got, p.val)
       ELSE Reject([Emit(got, ErrSyntax) EXCEPT !.pc = "done"], ErrSyntax)

InfoResolve(c, raw) ==
  /\ calls[c].op = "connectPopup" /\ calls[c].info = "pending"
  /\ calls' = [calls EXCEPT ![c] = ReceiveInfo(@, raw)]
  /\ UNCHANGED <<isProviderConnected, methods, metadata, stored>>

\* The executor after `await promiseConnectionInfo` threw e.
InfoReject(c, e) ==
  /\ calls[c].op = "connectPopup" /\ calls[c].info = "pending"
  /\ calls' = [calls EXCEPT ![c] =
       Reject([Emit(@, e) EXCEPT !.info = "rejected", !.pc = "done"], e)]
  /\ UNCHANGED <<isProviderConnected, methods, metadata, stored>>

\* A catch handler of promiseLong that also sends the error to the connector.
LongRejectNotifies(c, e) ==
  /\ calls[c].op = "connectPopup" /\ calls[c].long = "pending"
  /\ calls' = [calls EXCEPT ![c] =
       Reject(Emit([@ EXCEPT !.long = "rejected", !.longErr = e], e), e)]
  /\ UNCHANGED <<isProviderConnected, methods, metadata, stored>>

\* promiseLong rejects: its catch handler rejects the call with the error.
LongReject(c, e) ==
  /\ calls[c].op = "connectPopup" /\ calls[c].long = "pending"
  /\ calls' = [calls EXCEPT ![c] =
       Reject([@ EXCEPT !.long = "rejected", !.longErr = e], e)]
  /\ UNCHANGED <<isProviderConnected, methods, metadata, stored>>

\* A catch handler of promisePing that does not reject the call.
PingRejectIgnored(c) ==
  /\ calls[c].op = "connectPopup" /\ calls[c].ping = "pending"
  /\ calls' = [calls EXCEPT ![c] = [@ EXCEPT !.ping = "rejected"]]
  /\ UNCHANGED <<isProviderConnected, methods, metadata, stored>>

\* promisePing rejects: its catch handler rejects the call.
PingReject(c) ==
  /\ calls[c].op = "connectPopup" /\ calls[c].ping = "pending"
  /\ calls' = [calls EXCEPT ![c] = Reject([@ EXCEPT !.ping = "rejected"], ErrTimeout)]
  /\ UNCHANGED <<isProviderConnected, methods, metadata, stored>>

\* saveConnectionInfo returns: the executor sets the flag and resolves.
SaveReturn(c) ==
  /\ calls[c].op = "connectPopup" /\ calls[c].save = "pending"
  /\ stored' = calls[c].saveArg
  /\ isProviderConnected' = TRUE
  /\ calls' = [calls EXCEPT ![c] = Resolve([@ EXCEPT !.save = "returned", !.pc = "done"])]
  /\ UNCHANGED <<methods, metadata>>

\* An executor that sets the flag although saveConnectionInfo failed.
SaveFailStillConnects(c) ==
  /\ calls[c].op = "connectPopup" /\ calls[c].save = "pending"
  /\ isProviderConnected' = TRUE
  /\ calls' = [calls EXCEPT ![c] = Resolve([@ EXCEPT !.save = "failed", !.pc = "done"])]
  /\ UNCHANGED <<methods, metadata, stored>>

\* saveConnectionInfo fails: the await throws inside the async executor,
\* whose own promise nobody reads; neither resolve nor reject is called.
SaveFail(c) ==
  /\ calls[c].op = "connectPopup" /\ calls[c].save = "pending"
  /\ calls' = [calls EXCEPT ![c] = [@ EXCEPT !.save = "failed", !.pc = "threw"]]
  /\ UNCHANGED <<isProviderConnected, methods, metadata, stored>>

\* ------------------------------------------------------------ connectSilent
ConnectSilentBody(r) == [r EXCEPT !.pc = "awaitFetch", !.fetch = "pending"]

ConnectSilent(skapp) ==
  /\ Len(calls) < MaxCalls
  /\ NoHandshakeInFlight
  /\ calls' = Append(calls, ConnectSilentBody(NewCall("connectSilent", skapp)))
  /\ UNCHANGED <<isProviderConnected, methods, metadata, stored>>

\* A body that does not check what fetchConnectionInfo returned.
AfterFetchUnchecked(r, v) ==
  [r EXCEPT !.fetch = "returned", !.fetched = v, !.pc = "awaitPerm",
            !.perm = "pending", !.permInfo = v, !.permSkapp = r.arg]

\* The body after fetchConnectionInfo returned v.
AfterFetch(r, v) ==
  LET got == [r EXCEPT !.fetch = "returned", !.fetched = v]
  IN IF Falsy(v) THEN Thrown(got, ErrNoSaved)
     ELSE [got EXCEPT !.pc = "awaitPerm", !.perm = "pending",
                      !.permInfo = v, !.permSkapp = r.arg]

FetchReturn(c) ==
  /\ calls[c].op = "connectSilent" /\ calls[c].fetch = "pending"
  /\ calls' = [calls EXCEPT ![c] = AfterFetch(@, stored)]
  /\ UNCHANGED <<isProviderConnected, methods, metadata, stored>>

FetchFail(c) ==
  /\ calls[c].op = "connectSilent" /\ calls[c].fetch = "pending"
  /\ calls' = [calls EXCEPT ![c] = Thrown([@ EXCEPT !.fetch = "failed"], ErrFetch)]
  /\ UNCHANGED <<isProviderConnected, methods, metadata, stored>>

\* A body that persists the connection info again once it is permitted.
PermReturnSaves(c, p) ==
  /\ calls[c].op = "connectSilent" /\ calls[c].perm = "pending"
  /\ LET got == [calls[c] EXCEPT !.perm = "returned", !.permVal = p]
     IN IF Falsy(p)
          THEN /\ calls' = [calls EXCEPT ![c] = Thrown(got, ErrNotPermissioned)]
               /\ UNCHANGED <<isProviderConnected, stored>>
          ELSE /\ calls' = [calls EXCEPT ![c] =
                    Returned([got EXCEPT !.save = "returned", !.saveCalls = @ + 1,
                                         !.saveArg = got.permInfo], NoValue)]
               /\ stored' = got.permInfo
               /\ isProviderConnected' = TRUE
  /\ UNCHANGED <<methods, metadata>>

\* A body that refuses only the permission `false`, and lets null through.
PermReturnOnlyFalse(c, p) ==
  /\ calls[c].op = "connectSilent" /\ calls[c].perm = "pending"
  /\ LET got == [calls[c] EXCEPT !.perm = "returned", !.permVal = p]
     IN IF p = FalseLit
          THEN /\ calls' = [calls EXCEPT ![c] = Thrown(got, ErrNotPermissioned)]
               /\ UNCHANGED isProviderConnected
          ELSE /\ calls' = [calls EXCEPT ![c] = Returned(got, NoValue)]
               /\ isProviderConnected' = TRUE
  /\ UNCHANGED <<methods, metadata, stored>>

\* The body after fetchSkappPermissions returned p.
PermReturn(c, p) ==
  /\ calls[c].op = "connectSilent" /\ calls[c].perm = "pending"
  /\ LET got == [calls[c] EXCEPT !.perm = "returned", !.permVal = p]
     IN IF Falsy(p)
          THEN /\ calls' = [calls EXCEPT ![c] = Thrown(got, ErrNotPermissioned)]
               /\ UNCHANGED isProviderConnected
          ELSE /\ calls' = [calls EXCEPT ![c] = Returned(got, NoValue)]
               /\ isProviderConnected' = TRUE
  /\ UNCHANGED <<methods, metadata, stored>>

\* A body that marks the provider disconnected when the permission check fails.
PermFailDisconnects(c) ==
  /\ calls[c].op = "connectSilent" /\ calls[c].perm = "pending"
  /\ calls' = [calls EXCEPT ![c] = Thrown([@ EXCEPT !.perm = "failed"], ErrPermissions)]
  /\ isProviderConnected' = FALSE
  /\ UNCHANGED <<methods, metadata, stored>>

\* fetchSkappPermissions fails: the body throws what it threw.
PermFail(c) ==
  /\ calls[c].op = "connectSilent" /\ calls[c].perm = "pending"
  /\ calls' = [calls EXCEPT ![c] = Thrown([@ EXCEPT !.perm = "failed"], ErrPermissions)]
  /\ UNCHANGED <<isProviderConnected, methods, metadata, stored>>

\* --------------------------------------------------------------- disconnect
DisconnectBody(r) == [r EXCEPT !.pc = "awaitClear", !.clear = "pending"]

Disconnect ==
  /\ Len(calls) < MaxCalls
  /\ calls' = Append(calls, DisconnectBody(NewCall("disconnect", "")))
  /\ UNCHANGED <<isProviderConnected, methods, metadata, stored>>

\* A disconnect that clears what is persisted and forgets the flag.
ClearReturnKeepsFlag(c) ==
  /\ calls[c].op = "disconnect" /\ calls[c].clear = "pending"
  /\ stored' = NullLit
  /\ calls' = [calls EXCEPT ![c] = Returned([@ EXCEPT !.clear = "returned"], NoValue)]
  /\ UNCHANGED <<isProviderConnected, methods, metadata>>

\* clearConnectionInfo returns: the body clears the flag and returns.
ClearReturn(c) ==
  /\ calls[c].op = "disconnect" /\ calls[c].clear = "pending"
  /\ stored' = NullLit
  /\ isProviderConnected' = FALSE
  /\ calls' = [calls EXCEPT ![c] = Returned([@ EXCEPT !.clear = "returned"], NoValue)]
  /\ UNCHANGED <<methods, metadata>>

ClearFail(c) ==
  /\ calls[c].op = "disconnect" /\ calls[c].clear = "pending"
  /\ calls' = [calls EXCEPT ![c] = Thrown([@ EXCEPT !.clear = "failed"], ErrClear)]
  /\ UNCHANGED <<isProviderConnected, methods, metadata, stored>>

\* ------------------------------------------------------ getProviderMetadata
GetProviderMetadata ==
  /\ Len(calls) < MaxCalls
  /\ calls' = Append(calls, Returned(NewCall("getProviderMetadata", ""), metadata))
  /\ UNCHANGED <<isProviderConnected, methods, metadata, stored>>

\* -------------------------------------------------------------------- steps
Next ==
  \/ \E m \in MethodNames : CallInterface(m)
  \/ \E c \in CallIds, v \in HandlerValues : HandlerReturn(c, v)
  \/ \E c \in CallIds : HandlerFail(c)
  \/ \E s \in Skapps : ConnectPopup(s)
  \/ \E c \in CallIds, raw \in RawPayloads : InfoResolve(c, raw)
  \/ \E c \in CallIds, e \in InfoErrors : InfoReject(c, e)
  \/ \E c \in CallIds, e \in LongErrors : LongReject(c, e)
  \/ \E c \in CallIds : PingReject(c)
  \/ \E c \in CallIds : SaveReturn(c)
  \/ \E c \in CallIds : SaveFail(c)
  \/ \E s \in Skapps : ConnectSilent(s)
  \/ \E c \in CallIds : FetchReturn(c)
  \/ \E c \in CallIds : FetchFail(c)
  \/ \E c \in CallIds, p \in PermissionResults : PermReturn(c, p)
  \/ \E c \in CallIds : PermFail(c)
  \/ Disconnect
  \/ \E c \in CallIds : ClearReturn(c)
  \/ \E c \in CallIds : ClearFail(c)
  \/ GetProviderMetadata

Spec == Init /\ [][Next]_vars

\* The runs in which the connector never writes on `connector-connection-info`
\* nor on `connector`, and the heartbeat monitor, which is bounded by
\* defaultWindowTimeout, gives up on every popup handshake it watches.
NextNoBroadcast ==
  \/ \E m \in MethodNames : CallInterface(m)
  \/ \E c \in CallIds, v \in HandlerValues : HandlerReturn(c, v)
  \/ \E c \in CallIds : HandlerFail(c)
  \/ \E s \in Skapps : ConnectPopup(s)
  \/ \E c \in CallIds : PingReject(c)
  \/ \E s \in Skapps : ConnectSilent(s)
  \/ \E c \in CallIds : FetchReturn(c)
  \/ \E c \in CallIds : FetchFail(c)
  \/ \E c \in CallIds, p \in PermissionResults : PermReturn(c, p)
  \/ \E c \in CallIds : PermFail(c)
  \/ Disconnect
  \/ \E c \in CallIds : ClearReturn(c)
  \/ \E c \in CallIds : ClearFail(c)
  \/ GetProviderMetadata

SpecTimeout ==
  /\ Init
  /\ [][NextNoBroadcast]_vars
  /\ WF_vars(\E c \in CallIds : PingReject(c))

\* =================================================================== claims
\* Call c takes part in the step: it starts, or its record changes.
Acts(c) == c > Len(calls) \/ calls'[c] # calls[c]
CallIdsAfter == 1..Len(calls')
Popups == {c \in CallIds : calls[c].op = "connectPopup"}
Silents == {c \in CallIds : calls[c].op = "connectSilent"}
Connects == ~isProviderConnected /\ isProviderConnected'

\* C1: no step of a connectPopup call that is rejected changes
\* isProviderConnected: a failed call leaves the session as it was, also when
\* the failure arrived while saveConnectionInfo was pending.
C1_FailedPopupKeepsSession ==
  [][\A c \in CallIdsAfter :
       (Acts(c) /\ calls'[c].op = "connectPopup" /\ calls'[c].status = "rejected")
         => isProviderConnected' = isProviderConnected]_vars

\* C2: a connectPopup call whose info waiter delivered a valid payload before
\* the lifecycle waiter or the heartbeat failed is not rejected by that late
\* signal.
C2_FirstSettledWaiterWins ==
  \A c \in Popups :
    (/\ calls[c].info = "resolved"
     /\ JSONParse(calls[c].payload).ok
     /\ calls[c].save # "failed"
     /\ (calls[c].long = "rejected" \/ calls[c].ping = "rejected"))
      => calls[c].status # "rejected"

C4_CollaboratorFailurePropagates ==
  \A c \in CallIds :
    /\ (calls[c].save = "failed" /\ calls[c].long # "rejected" /\ calls[c].ping # "rejected")
         => (calls[c].status = "rejected" /\ calls[c].err = ErrSave)
    /\ calls[c].fetch = "failed" => (calls[c].status = "rejected" /\ calls[c].err = ErrFetch)
    /\ calls[c].perm = "failed" => (calls[c].status = "rejected" /\ calls[c].err = ErrPermissions)
    /\ calls[c].clear = "failed" => (calls[c].status = "rejected" /\ calls[c].err = ErrClear)

\* C5: a connectPopup call resolves only in the step in which
\* saveConnectionInfo, called with the parsed payload, returns; that step
\* sets isProviderConnected and then resolves; at that point the persisted
\* value is the parsed payload.  A resolved call has saved the parsed payload.
C5_SaveThenConnectThenResolve ==
  /\ [](\A c \in Popups :
          calls[c].status = "resolved" =>
            /\ calls[c].save = "returned"
            /\ JSONParse(calls[c].payload).ok
            /\ calls[c].saveArg = JSONParse(calls[c].payload).val)
  /\ [][\A c \in Popups :
          (calls[c].status = "pending" /\ calls'[c].status = "resolved") =>
            /\ calls[c].save = "pending" /\ calls'[c].save = "returned"
            /\ calls[c].saveArg = JSONParse(calls[c].payload).val
            /\ isProviderConnected'
            /\ stored' = JSONParse(calls[c].payload).val]_vars

\* A resolved popup handshake whose payload was not in canonical form.
C5_Witness ==
  \E c \in Popups :
    /\ calls[c].status = "resolved"
    /\ calls[c].payload = PayloadObject
    /\ calls[c].saveArg # calls[c].payload
    /\ stored = calls[c].saveArg
    /\ isProviderConnected

\* C6: every step that takes isProviderConnected from false to true is a step
\* of a connectPopup or connectSilent call that resolves.
C6_ConnectedOnlyBySuccessfulHandshake ==
  [][Connects =>
       \E c \in CallIds :
         /\ Acts(c)
         /\ calls[c].op \in Handshakes
         /\ calls'[c].status = "resolved"]_vars

\* What entitles a call to set the flag: its saveConnectionInfo returned, or
\* it fetched connection info that is not null and was given a permission.
Entitled(r) ==
  \/ r.op = "connectPopup" /\ r.save = "returned"
  \/ /\ r.op = "connectSilent"
     /\ r.fetch = "returned" /\ r.fetched # NullLit
     /\ r.perm = "returned" /\ ~Falsy(r.permVal)
     /\ r.permInfo = r.fetched

\* C7: isProviderConnected is true only if some call has persisted connection
\* info with saveConnectionInfo, or has fetched info that is not null and
\* passed the permission check; and the step that sets the flag is a step of
\* such a call.
C7_ConnectedImpliesPersistedOrRecovered ==
  /\ [](isProviderConnected => \E c \in CallIds : Entitled(calls[c]))
  /\ [][Connects => \E c \in CallIds : Acts(c) /\ Entitled(calls'[c])]_vars

\* Connected by a popup handshake, and again, after a disconnect, by a silent one.
C7_Witness ==
  /\ isProviderConnected
  /\ \E c \in Popups, d \in CallIds, e \in Silents :
       /\ c < d /\ d < e
       /\ calls[c].status = "resolved"
       /\ calls[d].op = "disconnect" /\ calls[d].status = "resolved"
       /\ calls[e].status = "resolved"

\* C8: callInterface(m) is rejected with NotConnected when the provider is
\* not connected, and with UnimplementedMethod when it is connected and m is
\* not a registered method, in both cases without calling a handler;
\* otherwise it calls the registered handler once and ends as the handler does.
C8_CallInterfaceContract ==
  \A c \in CallIds :
    calls[c].op = "callInterface" =>
      /\ ~calls[c].pre =>
           /\ calls[c].status = "rejected" /\ calls[c].err = ErrNotConnected
           /\ calls[c].handlerCalls = 0
      /\ (calls[c].pre /\ calls[c].arg \notin methods) =>
           /\ calls[c].status = "rejected" /\ calls[c].err = ErrUnimplemented
           /\ calls[c].handlerCalls = 0
      /\ (calls[c].pre /\ calls[c].arg \in methods) =>
           /\ calls[c].handlerCalls = 1
           /\ calls[c].status = "resolved" => calls[c].value \in HandlerValues
           /\ calls[c].status = "rejected" => calls[c].err = ErrHandler

\* C9: a connectSilent call whose fetchConnectionInfo returned null is
\* rejected with NoSavedConnection, has not called fetchSkappPermissions, and
\* the step that ends it leaves isProviderConnected as it was.
C9_SilentWithoutSavedInfo ==
  /\ [](\A c \in Silents :
          (calls[c].fetch = "returned" /\ calls[c].fetched = NullLit) =>
            /\ calls[c].status = "rejected" /\ calls[c].err = ErrNoSaved
            /\ calls[c].perm = "none")
  /\ [][\A c \in Silents :
          (calls[c].fetch = "pending" /\ calls'[c].fetch = "returned"
             /\ calls'[c].fetched = NullLit)
            => isProviderConnected' = isProviderConnected]_vars

\* A silent handshake that found nothing persisted, after a disconnect had
\* cleared what was there.
C9_Witness ==
  \E d \in CallIds, c \in Silents :
    /\ d < c
    /\ calls[d].op = "disconnect" /\ calls[d].status = "resolved"
    /\ calls[c].fetch = "returned" /\ calls[c].fetched = NullLit
    /\ calls[c].status = "rejected"

\* C10: a connectSilent call whose permission result is falsy (false or null)
\* is rejected with NotPermissioned by a step that leaves
\* isProviderConnected as it was; a connectSilent call resolves, and sets the
\* flag, only with a truthy permission result.
C10_SilentNeedsPermission ==
  /\ [](\A c \in Silents :
          /\ (calls[c].perm = "returned" /\ Falsy(calls[c].permVal)) =>
               (calls[c].status = "rejected" /\ calls[c].err = ErrNotPermissioned)
          /\ calls[c].status = "resolved" =>
               (calls[c].perm = "returned" /\ ~Falsy(calls[c].permVal)))
  /\ [][\A c \in Silents :
          Acts(c) =>
            /\ (calls'[c].perm = "returned" /\ Falsy(calls'[c].permVal))
                 => isProviderConnected' = isProviderConnected
            /\ Connects => (calls'[c].perm = "returned" /\ ~Falsy(calls'[c].permVal))]_vars

\* A silent handshake refused for a null permission result, the provider
\* still disconnected, and a later one that was permitted.
C10_Witness ==
  \E c \in Silents, d \in Silents :
    /\ calls[c].permVal = NullLit /\ calls[c].perm = "returned"
    /\ calls[c].status = "rejected" /\ ~calls[c].pre
    /\ calls[d].permVal = TrueLit /\ calls[d].status = "resolved"
    /\ c < d
    /\ isProviderConnected

\* ------------------------------------------------------------------- C11
Disconnects == {c \in CallIds : calls[c].op = "disconnect"}

C12_TimeoutRejects ==
  /\ \A c \in 1..MaxCalls :
       (c \in Popups) ~>
         (c \in Popups /\ calls[c].status = "rejected" /\ calls[c].err = ErrTimeout)
  /\ [][\A c \in CallIdsAfter :
          (Acts(c) /\ calls'[c].op = "connectPopup")
            => isProviderConnected' = isProviderConnected]_vars

\* A popup handshake rejected by the heartbeat while the other two waiters
\* were still waiting, on a provider that was connected before and still is.
C12_Witness ==
  \E c \in Popups :
    /\ calls[c].status = "rejected" /\ calls[c].err = ErrTimeout
    /\ calls[c].ping = "rejected"
    /\ calls[c].info = "canceled" /\ calls[c].long = "canceled"
    /\ calls[c].pre /\ isProviderConnected

\* ------------------------------------------------------------------- C13
\* C13: a connectPopup call whose info waiter delivered a payload that does
\* not parse is rejected with the parse failure, has emitted exactly one
\* `error` event, carrying the parse failure, while its promise was still
\* pending, has not called saveConnectionInfo, and the step that received
\* the payload left isProviderConnected as it was.
C13_InvalidPayloadRejects ==
  /\ [](\A c \in Popups :
          (calls[c].info = "resolved" /\ ~JSONParse(calls[c].payload).ok) =>
            /\ calls[c].status = "rejected" /\ calls[c].err = ErrSyntax
            /\ calls[c].emits = <<[detail |-> ErrSyntax, promise |-> "pending"]>>
            /\ calls[c].saveCalls = 0 /\ calls[c].save = "none")
  /\ [][\A c \in Popups :
          (calls[c].info = "pending" /\ calls'[c].info = "resolved"
             /\ ~JSONParse(calls'[c].payload).ok)
            => UNCHANGED <<isProviderConnected, stored>>]_vars

\* The payload "{not json" was received by a popup handshake.
C13_Witness ==
  \E c \in Popups :
    /\ calls[c].payload = PayloadNotJson /\ calls[c].info = "resolved"
    /\ calls[c].status = "rejected"
    /\ Len(calls[c].emits) = 1

\* ------------------------------------------------------------------- C14
\* C14: a connectPopup call whose lifecycle waiter rejected while the other
\* two waiters were still waiting is rejected with what the lifecycle waiter
\* rejected with (closed or error), and has emitted no `error` event, then
\* and ever after.
C14_LifecycleFailureIsSilent ==
  \A c \in Popups :
    (calls[c].long = "rejected" /\ calls[c].info = "canceled" /\ calls[c].ping = "canceled") =>
      /\ calls[c].status = "rejected"
      /\ calls[c].err = calls[c].longErr /\ calls[c].longErr \in LongErrors
      /\ calls[c].emits = <<>>

\* Two popup handshakes, one ended by `closed` and one by `error`.
C14_Witness ==
  \E c \in Popups, d \in Popups :
    /\ calls[c].long = "rejected" /\ calls[c].info = "canceled"
    /\ calls[c].ping = "canceled" /\ calls[c].err = "closed"
    /\ calls[d].long = "rejected" /\ calls[d].info = "canceled"
    /\ calls[d].ping = "canceled" /\ calls[d].err = "error"

\* ------------------------------------------------------------------- C15
\* C15: a connectSilent call never calls saveConnectionInfo or
\* clearConnectionInfo, registers no waiter, runs no cleanup and emits no
\* event; a step of a connectSilent call changes nothing but the call's own
\* record and, possibly, isProviderConnected, which it can only set to true.
C15_SilentFrame ==
  /\ [](\A c \in Silents :
          /\ calls[c].save = "none" /\ calls[c].saveCalls = 0
          /\ calls[c].clear = "none"
          /\ calls[c].info = "none" /\ calls[c].long = "none" /\ calls[c].ping = "none"
          /\ calls[c].cInfo = 0 /\ calls[c].cLong = 0 /\ calls[c].cPing = 0
          /\ calls[c].emits = <<>>)
  /\ [][\A c \in CallIdsAfter :
          (Acts(c) /\ calls'[c].op = "connectSilent") =>
            /\ UNCHANGED <<stored, methods, metadata>>
            /\ isProviderConnected' = isProviderConnected \/ isProviderConnected'
            /\ \A d \in CallIds : d # c => calls'[d] = calls[d]]_vars

\* A silent handshake that connected the provider and one that failed, with
\* connection info persisted before and after.
C15_Witness ==
  \E c \in Silents, d \in Silents :
    /\ calls[c].status = "resolved" /\ ~calls[c].pre
    /\ calls[d].status = "rejected"
    /\ stored = SavedInfo
    /\ isProviderConnected

\* ------------------------------------------------------------------- C16
\* C16: every step that takes isProviderConnected from true to false is a
\* step of a disconnect call.
C16_DisconnectedOnlyByDisconnect ==
  [][(isProviderConnected /\ ~isProviderConnected') =>
       \E c \in CallIds : Acts(c) /\ calls[c].op = "disconnect"]_vars

\* A provider that is still connected after a handshake failed on it and an
\* interface call or a read of the metadata was made on it.
C16_Witness ==
  /\ isProviderConnected
  /\ \E c \in CallIds, d \in CallIds :
       /\ calls[c].op \in Handshakes /\ calls[c].pre /\ calls[c].status = "rejected"
       /\ calls[d].op \in {"callInterface", "getProviderMetadata"} /\ calls[d].pre

\* ------------------------------------------------------------------- C17
\* C17: once a disconnect call has returned, no handshake call that was
\* started before that disconnect sets isProviderConnected back to true:
\* every step that takes the flag from false to true is a step of a
\* handshake call after which no disconnect was started and has returned.
C17_NoReconnectByEarlierHandshake ==
  [][Connects =>
       \E c \in CallIds :
         /\ Acts(c) /\ calls[c].op \in Handshakes
         /\ ~\E d \in CallIds :
               d > c /\ calls[d].op = "disconnect" /\ calls[d].status = "resolved"]_vars

\* ------------------------------------------------------------------- C18
\* C18: a connectPopup call that received the info broadcast and whose
\* saveConnectionInfo, if it was called, has returned or failed, is settled
\* and has run the cleanup of its three waiters.
C18_PopupSettlesAfterInfo ==
  \A c \in Popups :
    (calls[c].info = "resolved" /\ calls[c].save # "pending") =>
      /\ calls[c].status # "pending"
      /\ calls[c].cInfo = 1 /\ calls[c].cLong = 1 /\ calls[c].cPing = 1

\* ------------------------------------------------------------------- C19
\* C19: a connectPopup call calls saveConnectionInfo at most once, and only
\* after its info waiter delivered a payload that parses; it emits at most
\* one `error` event; and it never does both.
C19_SaveAndErrorExclusive ==
  \A c \in Popups :
    /\ calls[c].saveCalls <= 1
    /\ Len(calls[c].emits) <= 1
    /\ (calls[c].save # "none") = (calls[c].saveCalls = 1)
    /\ calls[c].saveCalls = 1 =>
         (calls[c].info = "resolved" /\ JSONParse(calls[c].payload).ok)
    /\ ~(calls[c].saveCalls >= 1 /\ Len(calls[c].emits) >= 1)

\* A popup handshake that saved and one that emitted the `error` event.
C19_Witness ==
  \E c \in Popups, d \in Popups :
    /\ calls[c].saveCalls = 1 /\ calls[c].emits = <<>>
    /\ calls[d].saveCalls = 0 /\ Len(calls[d].emits) = 1
    /\ calls[d].payload = PayloadNotJson

====
